---- MODULE Spec2Model ----
(***************************************************************************)
(* Model of pycatsniffer_bv3/Modules/Fifo.py (the FIFO / named-pipe worker *)
(* threads FifoLinux and FifoWindows) and of Modules/Protocols.py (the     *)
(* protocol descriptors and the command encoder).                          *)
(*                                                                         *)
(* Fifo.py is a threading.Thread subclass.  The model has three threads:   *)
(*   - the worker thread executing run(); one step per access to a shared  *)
(*     attribute or to the pipe (the interpreter may switch threads        *)
(*     between any two of them; the fields are not guarded by the lock);   *)
(*   - the controlling thread calling set_linktype(), start() and stop();  *)
(*   - the capture thread calling add_data().                              *)
(* The environment is the external reader of the pipe, which attaches and  *)
(* detaches at will.                                                       *)
(***************************************************************************)
EXTENDS Integers, Sequences, FiniteSets, TLC

VARIABLES
    variant,            \* "linux" (FifoLinux) or "windows" (FifoWindows)
    fifo_recv_cancel,   \* Fifo.fifo_recv_cancel
    fifo_need_header,   \* Fifo.fifo_need_header
    fifo_packet,        \* Fifo.fifo_packet (None = 0)
    last_packet,        \* Fifo.last_packet (None = 0)
    fifo_worker,        \* Fifo.fifo_worker: "None", "file" or "handle"
    linktype,           \* Fifo.linktype
    wpc,                \* position of the worker thread
    mpc,                \* position of the controlling thread
    fileExists,         \* os.path.exists(fifo_path)
    consumer,           \* a reader currently has the pipe open
    buf,                \* unflushed content of the BufferedWriter (linux)
    pipe,               \* everything delivered to the OS pipe so far
    submitted,          \* history of the frames passed to add_data
    stops,              \* number of calls of stop()
    released,           \* os.remove(fifo_path) in stop() has succeeded
    broken,             \* a BrokenPipeError has been caught by run()
    detaches,           \* number of times the reader has closed the pipe
    cmd_proto,          \* command encoder: the descriptor last used
    cmd_channel,        \* command encoder: the channel argument last used
    cmd_out,            \* command encoder: the value last returned
    cmd_op,             \* command encoder / registry: the method last called
    cmd_name,           \* registry: the name argument of that call
    cmd_ret             \* registry: the value returned by that call

fifoVars == <<variant, fifo_recv_cancel, fifo_need_header, fifo_packet,
              last_packet, fifo_worker, linktype, wpc, mpc, fileExists,
              consumer, buf, pipe, submitted, stops, released, broken,
              detaches>>
cmdVars == <<cmd_proto, cmd_channel, cmd_out, cmd_op, cmd_name, cmd_ret>>
vars == <<fifoVars, cmdVars>>

----------------------------------------------------------------------------
(* Bounds of the model *)

MaxFrame == 2
MaxSubmit == 3
MaxStops == 2
MaxDetach == 2
BufCap == 2
MaxChannel == 39

(* Program constants *)

None == 0
LINKTYPE_IEEE802_15_4_NOFCS == 230
CONST_FRECUENCY == 65536

Frames == 1..MaxFrame
LinkTypes == {147}

----------------------------------------------------------------------------
(* Pcap framing (Modules/Pcap.py): items written to the pipe *)

get_global_header(lt) == [kind |-> "hdr", val |-> lt, id |-> 0]

PacketItem(v, n) == [kind |-> "pkt", val |-> v, id |-> n]

----------------------------------------------------------------------------
(* Shared helpers *)

\* the calling thread is not inside stop() and the process is alive
Callable == mpc \in {"idle", "returned", "raised"}

\* sys.exit(0) has not been executed
Alive == mpc # "SystemExit"

\* the thread has terminated (run() returned or died on an exception)
Finished == wpc = "done"

\* the raw write(2) on the FIFO succeeds iff a reader has it open (else EPIPE)
RawWriteOk == consumer

\* io.BufferedWriter.write: the data goes to the buffer; a full buffer is
\* flushed first, and a failing flush keeps the buffered data and raises
bw_write(item) ==
    IF Len(buf) < BufCap
    THEN [ok |-> TRUE, buf |-> Append(buf, item), pipe |-> pipe]
    ELSE IF RawWriteOk
         THEN [ok |-> TRUE, buf |-> <<item>>, pipe |-> pipe \o buf]
         ELSE [ok |-> FALSE, buf |-> buf, pipe |-> pipe]

\* io.BufferedWriter.flush: a failing flush keeps the buffered data and raises
bw_flush ==
    IF RawWriteOk
    THEN [ok |-> TRUE, buf |-> <<>>, pipe |-> pipe \o buf]
    ELSE [ok |-> FALSE, buf |-> buf, pipe |-> pipe]

\* win32file.WriteFile on the named pipe: unbuffered
WriteFileOk == fifo_worker = "handle" /\ consumer

----------------------------------------------------------------------------
(* State after construction: Fifo.__init__, FifoLinux/FifoWindows.__init__ *)

FifoInit ==
    /\ variant \in {"linux", "windows"}
    /\ fifo_recv_cancel = FALSE
    /\ fifo_need_header = TRUE
    /\ fifo_packet = None
    /\ last_packet = None
    /\ fifo_worker = "None"
    /\ linktype = LINKTYPE_IEEE802_15_4_NOFCS
    /\ wpc = "idle"
    /\ mpc = "idle"
    /\ fileExists = FALSE
    /\ consumer = FALSE
    /\ buf = <<>>
    /\ pipe = <<>>
    /\ submitted = <<>>
    /\ stops = 0
    /\ released = FALSE
    /\ broken = FALSE
    /\ detaches = 0

----------------------------------------------------------------------------
(* The controlling thread *)

\* Fifo.set_linktype, called while configuring, before the thread is started
set_linktype(lt) ==
    /\ Callable /\ wpc = "idle" /\ stops = 0
    /\ linktype' = lt
    /\ UNCHANGED <<variant, fifo_recv_cancel, fifo_need_header, fifo_packet,
                   last_packet, fifo_worker, wpc, mpc, fileExists, consumer,
                   buf, pipe, submitted, stops, released, broken, detaches>>

\* threading.Thread.start: the thread is scheduled, run() has not begun
start ==
    /\ Callable /\ wpc = "idle"
    /\ wpc' = "run"
    /\ UNCHANGED <<variant, fifo_recv_cancel, fifo_need_header, fifo_packet,
                   last_packet, fifo_worker, linktype, mpc, fileExists,
                   consumer, buf, pipe, submitted, stops, released, broken,
                   detaches>>

\* FifoLinux.stop, lines 86-88 / FifoWindows.stop, line 160: set the flag
stop_cancel ==
    /\ Callable /\ stops < MaxStops
    /\ fifo_recv_cancel' = TRUE
    /\ stops' = stops + 1
    /\ mpc' = IF variant = "linux" THEN "join" ELSE "w161"
    /\ UNCHANGED <<variant, fifo_need_header, fifo_packet, last_packet,
                   fifo_worker, linktype, wpc, fileExists, consumer, buf,
                   pipe, submitted, released, broken, detaches>>

\* FifoWindows.stop, line 161: the pending frame is cleared
stop_clear ==
    /\ mpc = "w161"
    /\ fifo_packet' = None
    /\ mpc' = "join"
    /\ UNCHANGED <<variant, fifo_recv_cancel, fifo_need_header, last_packet,
                   fifo_worker, linktype, wpc, fileExists, consumer, buf,
                   pipe, submitted, stops, released, broken, detaches>>

\* a stop() that goes on to the removal without waiting for the thread
stop_join_nowait ==
    /\ mpc = "join"
    /\ mpc' = IF wpc = "idle" THEN "raised"
              ELSE IF variant = "linux" THEN "remove" ELSE "returned"
    /\ UNCHANGED <<variant, fifo_recv_cancel, fifo_need_header, fifo_packet,
                   last_packet, fifo_worker, linktype, wpc, fileExists,
                   consumer, buf, pipe, submitted, stops, released, broken,
                   detaches>>

\* self.join(): RuntimeError when the thread was never started; otherwise
\* blocks until the thread has terminated.  FifoWindows.stop returns then.
stop_join ==
    /\ mpc = "join"
    /\ IF wpc = "idle"
       THEN mpc' = "raised"
       ELSE /\ Finished
            /\ mpc' = IF variant = "linux" THEN "remove" ELSE "returned"
    /\ UNCHANGED <<variant, fifo_recv_cancel, fifo_need_header, fifo_packet,
                   last_packet, fifo_worker, linktype, wpc, fileExists,
                   consumer, buf, pipe, submitted, stops, released, broken,
                   detaches>>

\* FifoLinux.stop, lines 90-94: os.remove; FileNotFoundError is logged and
\* followed by sys.exit(0)
stop_remove ==
    /\ mpc = "remove"
    /\ IF fileExists
       THEN /\ fileExists' = FALSE
            /\ released' = TRUE
            /\ mpc' = "returned"
       ELSE /\ mpc' = "SystemExit"
            /\ UNCHANGED <<fileExists, released>>
    /\ UNCHANGED <<variant, fifo_recv_cancel, fifo_need_header, fifo_packet,
                   last_packet, fifo_worker, linktype, wpc, consumer, buf,
                   pipe, submitted, stops, broken, detaches>>

----------------------------------------------------------------------------
(* The capture thread *)

\* a slot that keeps the pending frame and refuses the new one
add_data_slot_keep(old, data) == IF old # None THEN old ELSE data

\* the value add_data stores into the pending-frame slot
add_data_slot(old, data) == data

\* FifoLinux.add_data / FifoWindows.add_data
add_data(data) ==
    /\ Alive /\ Len(submitted) < MaxSubmit
    /\ fifo_packet' = add_data_slot(fifo_packet, data)
    /\ submitted' = Append(submitted, data)
    /\ UNCHANGED <<variant, fifo_recv_cancel, fifo_need_header, last_packet,
                   fifo_worker, linktype, wpc, mpc, fileExists, consumer,
                   buf, pipe, stops, released, broken, detaches>>

----------------------------------------------------------------------------
(* The reader of the pipe (environment) *)

\* a reader opens the pipe: the FIFO file, or the created named pipe
Attach ==
    /\ Alive /\ ~consumer
    /\ IF variant = "linux" THEN fileExists ELSE fifo_worker = "handle"
    /\ consumer' = TRUE
    /\ UNCHANGED <<variant, fifo_recv_cancel, fifo_need_header, fifo_packet,
                   last_packet, fifo_worker, linktype, wpc, mpc, fileExists,
                   buf, pipe, submitted, stops, released, broken, detaches>>

\* the reader closes the pipe
Detach ==
    /\ Alive /\ consumer /\ detaches < MaxDetach
    /\ consumer' = FALSE
    /\ detaches' = detaches + 1
    /\ UNCHANGED <<variant, fifo_recv_cancel, fifo_need_header, fifo_packet,
                   last_packet, fifo_worker, linktype, wpc, mpc, fileExists,
                   buf, pipe, submitted, stops, released, broken>>

----------------------------------------------------------------------------
(* The worker thread of FifoLinux *)

\* a handler that lets the exception end the thread
except_BrokenPipeError_raise(slot) == [fifo_packet |-> slot, wpc |-> "done"]

\* a handler that drops the frame whose write failed
except_BrokenPipeError_discard(slot) == [fifo_packet |-> None, wpc |-> "l66"]

\* lines 82-83, except BrokenPipeError: pass.  The pending-frame slot is
\* left as it is and the loop goes on with its next iteration
except_BrokenPipeError(slot) == [fifo_packet |-> slot, wpc |-> "l66"]

\* FifoLinux.run, lines 63-65: the flag is reset, open() is called
linux_run_begin ==
    /\ variant = "linux" /\ wpc = "run" /\ Alive
    /\ fifo_recv_cancel' = FALSE
    /\ wpc' = IF fifo_worker = "None" THEN "open" ELSE "l66"
    /\ UNCHANGED <<variant, fifo_need_header, fifo_packet, last_packet,
                   fifo_worker, linktype, mpc, fileExists, consumer, buf,
                   pipe, submitted, stops, released, broken, detaches>>

\* FifoLinux.open, lines 54-55, and create: os.mkfifo when the path is
\* absent; an OSError of mkfifo is printed and the path stays absent
linux_open_create ==
    /\ variant = "linux" /\ wpc = "open" /\ Alive
    /\ IF fileExists
       THEN UNCHANGED fileExists
       ELSE \E ok \in BOOLEAN : fileExists' = ok
    /\ wpc' = "l57"
    /\ UNCHANGED <<variant, fifo_recv_cancel, fifo_need_header, fifo_packet,
                   last_packet, fifo_worker, linktype, mpc, consumer, buf,
                   pipe, submitted, stops, released, broken, detaches>>

\* FifoLinux.open, lines 56-59: open(path, "ab") on the FIFO blocks until a
\* reader has it open; where mkfifo failed the open fails too and the
\* OSError is printed, leaving fifo_worker None
linux_open_file ==
    /\ variant = "linux" /\ wpc = "l57" /\ Alive
    /\ IF fileExists
       THEN /\ consumer
            /\ fifo_worker' = "file"
       ELSE UNCHANGED fifo_worker
    /\ wpc' = "l66"
    /\ UNCHANGED <<variant, fifo_recv_cancel, fifo_need_header, fifo_packet,
                   last_packet, linktype, mpc, fileExists, consumer, buf,
                   pipe, submitted, stops, released, broken, detaches>>

\* line 66: while not self.fifo_recv_cancel
linux_loop_test ==
    /\ variant = "linux" /\ wpc = "l66" /\ Alive
    /\ wpc' = IF fifo_recv_cancel THEN "done" ELSE "l68"
    /\ UNCHANGED <<variant, fifo_recv_cancel, fifo_need_header, fifo_packet,
                   last_packet, fifo_worker, linktype, mpc, fileExists,
                   consumer, buf, pipe, submitted, stops, released, broken,
                   detaches>>

\* lines 68, 80-81: if self.fifo_packet ... else: time.sleep(0.01)
linux_if_packet ==
    /\ variant = "linux" /\ wpc = "l68" /\ Alive
    /\ wpc' = IF fifo_packet # None THEN "l69" ELSE "l66"
    /\ UNCHANGED <<variant, fifo_recv_cancel, fifo_need_header, fifo_packet,
                   last_packet, fifo_worker, linktype, mpc, fileExists,
                   consumer, buf, pipe, submitted, stops, released, broken,
                   detaches>>

\* a loop that polls the slot for a new frame without going back to its test
linux_if_new_spin ==
    /\ variant = "linux" /\ wpc = "l69" /\ Alive
    /\ wpc' = IF fifo_packet # last_packet
              THEN (IF fifo_need_header THEN "l71" ELSE "l75")
              ELSE "l68"
    /\ UNCHANGED <<variant, fifo_recv_cancel, fifo_need_header, fifo_packet,
                   last_packet, fifo_worker, linktype, mpc, fileExists,
                   consumer, buf, pipe, submitted, stops, released, broken,
                   detaches>>

\* lines 69-70: if self.fifo_packet != self.last_packet: if fifo_need_header
linux_if_new ==
    /\ variant = "linux" /\ wpc = "l69" /\ Alive
    /\ wpc' = IF fifo_packet # last_packet
              THEN (IF fifo_need_header THEN "l71" ELSE "l75")
              ELSE "l66"
    /\ UNCHANGED <<variant, fifo_recv_cancel, fifo_need_header, fifo_packet,
                   last_packet, fifo_worker, linktype, mpc, fileExists,
                   consumer, buf, pipe, submitted, stops, released, broken,
                   detaches>>

\* a write or flush of the worker: r is the outcome on the BufferedWriter;
\* success continues at pc next, a BrokenPipeError is caught (lines 82-83)
linux_io(r, next) ==
    /\ buf' = r.buf
    /\ pipe' = r.pipe
    /\ IF r.ok
       THEN /\ wpc' = next
            /\ UNCHANGED <<fifo_packet, broken>>
       ELSE /\ wpc' = except_BrokenPipeError(fifo_packet).wpc
            /\ fifo_packet' = except_BrokenPipeError(fifo_packet).fifo_packet
            /\ broken' = TRUE

\* line 71: self.fifo_worker.write(Pcap.get_global_header(self.linktype));
\* AttributeError ends the thread when fifo_worker is None
linux_write_header ==
    /\ variant = "linux" /\ wpc = "l71" /\ Alive
    /\ IF fifo_worker = "None"
       THEN /\ wpc' = "done"
            /\ UNCHANGED <<buf, pipe, fifo_packet, broken>>
       ELSE linux_io(bw_write(get_global_header(linktype)), "l72")
    /\ UNCHANGED <<variant, fifo_recv_cancel, fifo_need_header, last_packet,
                   fifo_worker, linktype, mpc, fileExists, consumer,
                   submitted, stops, released, detaches>>

\* lines 72-73: self.fifo_worker.flush(); self.fifo_need_header = False
linux_flush_header ==
    /\ variant = "linux" /\ wpc = "l72" /\ Alive
    /\ linux_io(bw_flush, "l75")
    /\ fifo_need_header' = IF bw_flush.ok THEN FALSE ELSE fifo_need_header
    /\ UNCHANGED <<variant, fifo_recv_cancel, last_packet, fifo_worker,
                   linktype, mpc, fileExists, consumer, submitted, stops,
                   released, detaches>>

\* line 75: self.fifo_worker.write(self.fifo_packet)
linux_write_packet ==
    /\ variant = "linux" /\ wpc = "l75" /\ Alive
    /\ IF fifo_worker = "None"
       THEN /\ wpc' = "done"
            /\ UNCHANGED <<buf, pipe, fifo_packet, broken>>
       ELSE linux_io(bw_write(PacketItem(fifo_packet, Len(submitted))), "l76")
    /\ UNCHANGED <<variant, fifo_recv_cancel, fifo_need_header, last_packet,
                   fifo_worker, linktype, mpc, fileExists, consumer,
                   submitted, stops, released, detaches>>

\* line 76: self.fifo_worker.flush()
linux_flush_packet ==
    /\ variant = "linux" /\ wpc = "l76" /\ Alive
    /\ linux_io(bw_flush, "l77")
    /\ UNCHANGED <<variant, fifo_recv_cancel, fifo_need_header, last_packet,
                   fifo_worker, linktype, mpc, fileExists, consumer,
                   submitted, stops, released, detaches>>

\* line 77: self.last_packet = self.fifo_packet
linux_set_last ==
    /\ variant = "linux" /\ wpc = "l77" /\ Alive
    /\ last_packet' = fifo_packet
    /\ wpc' = "l78"
    /\ UNCHANGED <<variant, fifo_recv_cancel, fifo_need_header, fifo_packet,
                   fifo_worker, linktype, mpc, fileExists, consumer, buf,
                   pipe, submitted, stops, released, broken, detaches>>

\* line 78: self.fifo_packet = None
linux_clear ==
    /\ variant = "linux" /\ wpc = "l78" /\ Alive
    /\ fifo_packet' = None
    /\ wpc' = "l66"
    /\ UNCHANGED <<variant, fifo_recv_cancel, fifo_need_header, last_packet,
                   fifo_worker, linktype, mpc, fileExists, consumer, buf,
                   pipe, submitted, stops, released, broken, detaches>>

LinuxWorker ==
    \/ linux_run_begin \/ linux_open_create \/ linux_open_file
    \/ linux_loop_test \/ linux_if_packet \/ linux_if_new
    \/ linux_write_header \/ linux_flush_header
    \/ linux_write_packet \/ linux_flush_packet
    \/ linux_set_last \/ linux_clear

----------------------------------------------------------------------------
(* The worker thread of FifoWindows.  Every pywintypes.error raised inside *)
(* run() is caught by lines 155-157 and ends run(); any other exception    *)
(* ends the thread as well.                                                *)

\* Pcap.get_global_header() called without argument (line 146)
get_global_header_default == get_global_header(LINKTYPE_IEEE802_15_4_NOFCS)

\* FifoWindows.run, lines 139-141
windows_run_begin ==
    /\ variant = "windows" /\ wpc = "run" /\ Alive
    /\ fifo_recv_cancel' = FALSE
    /\ wpc' = IF fifo_worker = "None" THEN "wopen" ELSE "w142"
    /\ UNCHANGED <<variant, fifo_need_header, fifo_packet, last_packet,
                   fifo_worker, linktype, mpc, fileExists, consumer, buf,
                   pipe, submitted, stops, released, broken, detaches>>

\* FifoWindows.open, lines 129-130, and create: CreateNamedPipe; its
\* pywintypes.error is printed and fifo_worker stays None
windows_open_create ==
    /\ variant = "windows" /\ wpc = "wopen" /\ Alive
    /\ IF fifo_worker = "None"
       THEN \E ok \in BOOLEAN : fifo_worker' = IF ok THEN "handle" ELSE "None"
       ELSE UNCHANGED fifo_worker
    /\ wpc' = "w132"
    /\ UNCHANGED <<variant, fifo_recv_cancel, fifo_need_header, fifo_packet,
                   last_packet, linktype, mpc, fileExists, consumer, buf,
                   pipe, submitted, stops, released, broken, detaches>>

\* FifoWindows.open, lines 131-135: ConnectNamedPipe returns once a client
\* has connected.  On the None handle left by a failed create the call
\* raises at once: a pywintypes.error is printed by open() and run() goes on
\* to its loop, any other error ends the thread
windows_connect ==
    /\ variant = "windows" /\ wpc = "w132" /\ Alive
    /\ IF fifo_worker = "None"
       THEN wpc' \in {"w142", "done"}
       ELSE consumer /\ wpc' = "w142"
    /\ UNCHANGED <<variant, fifo_recv_cancel, fifo_need_header, fifo_packet,
                   last_packet, fifo_worker, linktype, mpc, fileExists,
                   consumer, buf, pipe, submitted, stops, released, broken,
                   detaches>>

\* FifoWindows.open, lines 134-135: a pipe-level fault of ConnectNamedPipe
\* on the created pipe; the pywintypes.error is printed by open() and run()
\* goes on to its loop
windows_connect_fault ==
    /\ variant = "windows" /\ wpc = "w132" /\ Alive
    /\ fifo_worker = "handle"
    /\ wpc' = "w142"
    /\ UNCHANGED <<variant, fifo_recv_cancel, fifo_need_header, fifo_packet,
                   last_packet, fifo_worker, linktype, mpc, fileExists,
                   consumer, buf, pipe, submitted, stops, released, broken,
                   detaches>>

\* line 142: while not self.fifo_recv_cancel
windows_loop_test ==
    /\ variant = "windows" /\ wpc = "w142" /\ Alive
    /\ wpc' = IF fifo_recv_cancel THEN "done" ELSE "w143"
    /\ UNCHANGED <<variant, fifo_recv_cancel, fifo_need_header, fifo_packet,
                   last_packet, fifo_worker, linktype, mpc, fileExists,
                   consumer, buf, pipe, submitted, stops, released, broken,
                   detaches>>

\* lines 143, 153-154: if self.fifo_packet ... else: time.sleep(0.01)
windows_if_packet ==
    /\ variant = "windows" /\ wpc = "w143" /\ Alive
    /\ wpc' = IF fifo_packet # None THEN "w144" ELSE "w142"
    /\ UNCHANGED <<variant, fifo_recv_cancel, fifo_need_header, fifo_packet,
                   last_packet, fifo_worker, linktype, mpc, fileExists,
                   consumer, buf, pipe, submitted, stops, released, broken,
                   detaches>>

\* lines 144-145
windows_if_new ==
    /\ variant = "windows" /\ wpc = "w144" /\ Alive
    /\ wpc' = IF fifo_packet # last_packet
              THEN (IF fifo_need_header THEN "w146" ELSE "w149")
              ELSE "w142"
    /\ UNCHANGED <<variant, fifo_recv_cancel, fifo_need_header, fifo_packet,
                   last_packet, fifo_worker, linktype, mpc, fileExists,
                   consumer, buf, pipe, submitted, stops, released, broken,
                   detaches>>

\* lines 146-147: win32file.WriteFile(self.fifo_worker,
\* Pcap.get_global_header()); self.fifo_need_header = False
windows_write_header ==
    /\ variant = "windows" /\ wpc = "w146" /\ Alive
    /\ IF WriteFileOk
       THEN /\ pipe' = Append(pipe, get_global_header_default)
            /\ fifo_need_header' = FALSE
            /\ wpc' = "w149"
       ELSE /\ wpc' = "done"
            /\ UNCHANGED <<pipe, fifo_need_header>>
    /\ UNCHANGED <<variant, fifo_recv_cancel, fifo_packet, last_packet,
                   fifo_worker, linktype, mpc, fileExists, consumer, buf,
                   submitted, stops, released, broken, detaches>>

\* a write whose failure is swallowed inside the loop, as on the FIFO
windows_write_packet_tolerant ==
    /\ variant = "windows" /\ wpc = "w149" /\ Alive
    /\ IF fifo_packet # None /\ WriteFileOk
       THEN /\ pipe' = Append(pipe, PacketItem(fifo_packet, Len(submitted)))
            /\ wpc' = "w150"
       ELSE /\ wpc' = "w142"
            /\ UNCHANGED pipe
    /\ UNCHANGED <<variant, fifo_recv_cancel, fifo_need_header, fifo_packet,
                   last_packet, fifo_worker, linktype, mpc, fileExists,
                   consumer, buf, submitted, stops, released, broken,
                   detaches>>

\* line 149: win32file.WriteFile(self.fifo_worker, self.fifo_packet); a
\* None packet (stop() has cleared the slot) raises TypeError
windows_write_packet ==
    /\ variant = "windows" /\ wpc = "w149" /\ Alive
    /\ IF fifo_packet # None /\ WriteFileOk
       THEN /\ pipe' = Append(pipe, PacketItem(fifo_packet, Len(submitted)))
            /\ wpc' = "w150"
       ELSE /\ wpc' = "done"
            /\ UNCHANGED pipe
    /\ UNCHANGED <<variant, fifo_recv_cancel, fifo_need_header, fifo_packet,
                   last_packet, fifo_worker, linktype, mpc, fileExists,
                   consumer, buf, submitted, stops, released, broken,
                   detaches>>

\* line 150: self.last_packet = self.fifo_packet
windows_set_last ==
    /\ variant = "windows" /\ wpc = "w150" /\ Alive
    /\ last_packet' = fifo_packet
    /\ wpc' = "w151"
    /\ UNCHANGED <<variant, fifo_recv_cancel, fifo_need_header, fifo_packet,
                   fifo_worker, linktype, mpc, fileExists, consumer, buf,
                   pipe, submitted, stops, released, broken, detaches>>

\* line 151: self.fifo_packet = None
windows_clear ==
    /\ variant = "windows" /\ wpc = "w151" /\ Alive
    /\ fifo_packet' = None
    /\ wpc' = "w142"
    /\ UNCHANGED <<variant, fifo_recv_cancel, fifo_need_header, last_packet,
                   fifo_worker, linktype, mpc, fileExists, consumer, buf,
                   pipe, submitted, stops, released, broken, detaches>>

WindowsWorker ==
    \/ windows_run_begin \/ windows_open_create \/ windows_connect
    \/ windows_loop_test \/ windows_if_packet \/ windows_if_new
    \/ windows_write_header \/ windows_write_packet
    \/ windows_set_last \/ windows_clear

----------------------------------------------------------------------------
(* Modules/Protocols.py.  A frequency is a number of 1/65536 MHz, so that  *)
(* the float values of the descriptors are exact integers here.            *)

MHz(n) == n * CONST_FRECUENCY

\* [(channel, 2405.0 + 5 * (channel - 11)) for channel in range(11, 27)]
RECURSIVE ieee802154_channels(_)
ieee802154_channels(channel) ==
    IF channel >= 27
    THEN <<>>
    ELSE <<<<channel, MHz(2405 + 5 * (channel - 11))>>>>
         \o ieee802154_channels(channel + 1)

PROTOCOL_BLE ==
    [phy_index |-> <<19>>, name |-> "Bluetooth LE",
     channel_range |-> <<<<37, MHz(2402)>>, <<38, MHz(2426)>>,
                         <<39, MHz(2480)>>>>,
     pcap_header |-> 147,
     common_names |-> <<"ble", "bluetooth", "bluetoothle">>]

PROTOCOL_ZIGBEE ==
    [phy_index |-> <<18>>, name |-> "Zigbee",
     channel_range |-> ieee802154_channels(11),
     pcap_header |-> 147,
     common_names |-> <<"zigbee", "zig", "zb">>]

PROTOCOL_THREAD ==
    [phy_index |-> <<18>>, name |-> "Thread",
     channel_range |-> ieee802154_channels(11),
     pcap_header |-> 147,
     common_names |-> <<"thread">>]

PROTOCOL_LORA ==
    [phy_index |-> <<20>>, name |-> "LoRa",
     channel_range |-> <<<<0, MHz(433)>>, <<1, MHz(434)>>, <<2, MHz(435)>>>>,
     pcap_header |-> 148,
     common_names |-> <<>>]

\* the members of the enumeration PROTOCOLSLIST, in definition order
PROTOCOLSLIST ==
    <<[name |-> "PROTOCOL_BLE", value |-> PROTOCOL_BLE],
      [name |-> "PROTOCOL_ZIGBEE", value |-> PROTOCOL_ZIGBEE],
      [name |-> "PROTOCOL_THREAD", value |-> PROTOCOL_THREAD],
      [name |-> "PROTOCOL_LORA", value |-> PROTOCOL_LORA]>>

MemberNames == {PROTOCOLSLIST[i].name : i \in 1..Len(PROTOCOLSLIST)}

Member(n) ==
    (CHOOSE i \in 1..Len(PROTOCOLSLIST) : PROTOCOLSLIST[i].name = n)

Descriptor(n) == PROTOCOLSLIST[Member(n)].value

\* Protocol.list_channel_range
list_channel_range(self) ==
    [i \in 1..Len(self.channel_range) |-> self.channel_range[i][1]]

\* Definitions.PacketCommand(opcode, payload)
PacketCommand(opcode, payload) == [opcode |-> opcode, payload |-> payload]

\* the value b"" returned by get_channel_bytes for an unknown channel
EmptyBytes == -1

\* a lookup that answers 0 for an unknown channel, as
\* get_frequency_by_channel does
get_channel_bytes_zero(self, channel_index) ==
    LET hits == {i \in 1..Len(self.channel_range) :
                    self.channel_range[i][1] = channel_index}
    IN  IF hits = {}
        THEN 0
        ELSE self.channel_range[CHOOSE i \in hits :
                                    \A j \in hits : i <= j][2]

\* Protocol.get_channel_bytes: the first pair whose index matches, else b""
get_channel_bytes(self, channel_index) ==
    LET hits == {i \in 1..Len(self.channel_range) :
                    self.channel_range[i][1] = channel_index}
    IN  IF hits = {}
        THEN EmptyBytes
        ELSE self.channel_range[CHOOSE i \in hits :
                                    \A j \in hits : i <= j][2]

\* int.to_bytes(2, byteorder="little")
to_bytes2(n) == <<n % 256, (n \div 256) % 256>>

\* Protocol.__calculate_fractional_frequency
calculate_fractional_frequency(frequency) ==
    LET integer_value == frequency \div CONST_FRECUENCY
        fractional_value == (integer_value - integer_value) * CONST_FRECUENCY
    IN  <<integer_value, fractional_value>>

\* Protocol.calculate_frequency
calculate_frequency(frequency) ==
    LET f == calculate_fractional_frequency(frequency)
    IN  to_bytes2(f[1]) \o to_bytes2(f[2])

Protocol_command_start == PacketCommand("CMD_START", <<>>)

Protocol_command_stop == PacketCommand("CMD_STOP", <<>>)

Protocol_command_ping == PacketCommand("CMD_PING", <<>>)

\* a payload built with bytes(n) of the PHY number: n zero bytes
command_cfg_phy_zeros(self) ==
    PacketCommand("CMD_CFG_PHY", [i \in 1..self.phy_index[1] |-> 0])

\* Protocol.command_cfg_phy: payload bytes(self.phy_index)
command_cfg_phy(self) == PacketCommand("CMD_CFG_PHY", self.phy_index)

\* Protocol.command_cfg_frequency; int(b"") raises ValueError
command_cfg_frequency(self, channel) ==
    LET get_channel == get_channel_bytes(self, channel)
    IN  IF get_channel = EmptyBytes
        THEN [err |-> "ValueError", cmd |-> PacketCommand("none", <<>>)]
        ELSE [err |-> "none",
              cmd |-> PacketCommand("CMD_CFG_FREQUENCY",
                                    calculate_frequency(get_channel))]

\* a list with start ahead of the frequency configuration
startup_list_swapped(ping, stop, phy, freq, go) ==
    <<ping, stop, phy, go, freq>>

\* the list command_startup builds from the command of each element
startup_list(ping, stop, phy, freq, go) == <<ping, stop, phy, freq, go>>

\* Protocol.command_startup: the exception of an element leaves no list
command_startup(self, channel) ==
    LET freq == command_cfg_frequency(self, channel)
    IN  IF freq.err # "none"
        THEN [err |-> freq.err, cmds |-> <<>>]
        ELSE [err |-> "none",
              cmds |-> startup_list(Protocol_command_ping,
                                    Protocol_command_stop,
                                    command_cfg_phy(self), freq.cmd,
                                    Protocol_command_start)]

\* the caller selects a descriptor and a channel and builds the sequence
call_command_startup(n, channel) ==
    /\ cmd_proto' = n
    /\ cmd_channel' = channel
    /\ cmd_out' = command_startup(Descriptor(n), channel)
    /\ cmd_op' = "command_startup"
    /\ cmd_name' = "" /\ cmd_ret' = <<"", "">>
    /\ UNCHANGED fifoVars

\* a descriptor built by a caller of Protocol(...): a sub-GHz PHY with the
\* channels (0, 433.5) and (1, 868.0)
PROTOCOL_SUBGHZ ==
    [phy_index |-> <<20>>, name |-> "SubGHz",
     channel_range |-> <<<<0, MHz(433) + (CONST_FRECUENCY \div 2)>>,
                         <<1, MHz(868)>>>>,
     pcap_header |-> 148,
     common_names |-> <<>>]

DescriptorNames == MemberNames \cup {"PROTOCOL_SUBGHZ"}

Protocol_of(n) ==
    IF n \in MemberNames THEN Descriptor(n) ELSE PROTOCOL_SUBGHZ

\* the caller builds the frequency command of a descriptor and a channel
call_command_cfg_frequency(n, channel) ==
    /\ cmd_proto' = n
    /\ cmd_channel' = channel
    /\ cmd_out' =
          LET r == command_cfg_frequency(Protocol_of(n), channel)
          IN  [err |-> r.err,
               cmds |-> IF r.err = "none" THEN <<r.cmd>> ELSE <<>>]
    /\ cmd_op' = "command_cfg_frequency"
    /\ cmd_name' = "" /\ cmd_ret' = <<"", "">>
    /\ UNCHANGED fifoVars

\* the caller builds the PHY command of a descriptor
call_command_cfg_phy(n) ==
    /\ cmd_proto' = n
    /\ cmd_out' = [err |-> "none",
                   cmds |-> <<command_cfg_phy(Protocol_of(n))>>]
    /\ cmd_op' = "command_cfg_phy"
    /\ cmd_channel' = 0 /\ cmd_name' = "" /\ cmd_ret' = <<"", "">>
    /\ UNCHANGED fifoVars

\* the caller builds the ping, stop or start command of a descriptor
call_command_fixed(n, op) ==
    /\ op \in {"command_ping", "command_stop", "command_start"}
    /\ cmd_proto' = n
    /\ cmd_out' =
          [err |-> "none",
           cmds |-> <<CASE op = "command_ping" -> Protocol_command_ping
                        [] op = "command_stop" -> Protocol_command_stop
                        [] op = "command_start" -> Protocol_command_start>>]
    /\ cmd_op' = op
    /\ cmd_channel' = 0 /\ cmd_name' = "" /\ cmd_ret' = <<"", "">>
    /\ UNCHANGED fifoVars

\* Protocol.find_by_name: self when the name is one of common_names
find_by_name(self, name) ==
    \E j \in 1..Len(self.common_names) : self.common_names[j] = name

\* PROTOCOLSLIST.get_protocol_by_name: the loop over the members from
\* member i on.  protocol.name is the name of the enumeration member; a
\* match on it returns the member, a match of find_by_name the Protocol
RECURSIVE get_protocol_by_name_from(_, _)
get_protocol_by_name_from(i, name) ==
    IF i > Len(PROTOCOLSLIST)
    THEN <<"None", "">>
    ELSE IF PROTOCOLSLIST[i].name = name
         THEN <<"member", PROTOCOLSLIST[i].name>>
         ELSE IF find_by_name(PROTOCOLSLIST[i].value, name)
              THEN <<"Protocol", PROTOCOLSLIST[i].name>>
              ELSE get_protocol_by_name_from(i + 1, name)

get_protocol_by_name(name) == get_protocol_by_name_from(1, name)

\* the strings looked up: member names, descriptor names, aliases, others
LookupNames ==
    MemberNames
    \cup {PROTOCOLSLIST[i].value.name : i \in 1..Len(PROTOCOLSLIST)}
    \cup UNION {{PROTOCOLSLIST[i].value.common_names[j] :
                    j \in 1..Len(PROTOCOLSLIST[i].value.common_names)} :
                 i \in 1..Len(PROTOCOLSLIST)}
    \cup {"nonexistent", "BLE", "lora", "ZIGBEE"}

\* the caller resolves a name
call_get_protocol_by_name(name) ==
    /\ cmd_name' = name
    /\ cmd_ret' = get_protocol_by_name(name)
    /\ cmd_op' = "get_protocol_by_name"
    /\ cmd_proto' = "none" /\ cmd_channel' = 0
    /\ cmd_out' = [err |-> "none", cmds |-> <<>>]
    /\ UNCHANGED fifoVars

----------------------------------------------------------------------------
(* The specification of the pipe worker *)

Worker == LinuxWorker \/ WindowsWorker

Stop == stop_cancel \/ stop_clear \/ stop_join \/ stop_remove

CmdIdle ==
    /\ cmd_proto = "none"
    /\ cmd_channel = 0
    /\ cmd_out = [err |-> "none", cmds |-> <<>>]
    /\ cmd_op = "none"
    /\ cmd_name = ""
    /\ cmd_ret = <<"", "">>

Init == FifoInit /\ CmdIdle

Next ==
    \/ (Worker /\ UNCHANGED cmdVars)
    \/ (windows_connect_fault /\ UNCHANGED cmdVars)
    \/ (Stop /\ UNCHANGED cmdVars)
    \/ (start /\ UNCHANGED cmdVars)
    \/ (\E lt \in LinkTypes : set_linktype(lt) /\ UNCHANGED cmdVars)
    \/ (\E data \in Frames : add_data(data) /\ UNCHANGED cmdVars)
    \/ (Attach /\ UNCHANGED cmdVars)
    \/ (Detach /\ UNCHANGED cmdVars)

Spec == Init /\ [][Next]_vars

----------------------------------------------------------------------------
(* The specification of the command encoder and of the registry: a caller *)
(* applying each method to every descriptor, channel and name argument     *)

CmdNext ==
    \/ \E n \in MemberNames, channel \in 0..MaxChannel :
          call_command_startup(n, channel)
    \/ \E n \in DescriptorNames, channel \in 0..MaxChannel :
          call_command_cfg_frequency(n, channel)
    \/ \E n \in DescriptorNames : call_command_cfg_phy(n)
    \/ \E n \in DescriptorNames,
           op \in {"command_ping", "command_stop", "command_start"} :
          call_command_fixed(n, op)
    \/ \E name \in LookupNames : call_get_protocol_by_name(name)

CmdSpec == Init /\ [][CmdNext]_vars

----------------------------------------------------------------------------
(* Properties *)

PipePackets == SelectSeq(pipe, LAMBDA x : x.kind = "pkt")

\* the worker is inside the while loop of run()
InLoop ==
    wpc \in {"l66", "l68", "l69", "l71", "l72", "l75", "l76", "l77", "l78",
             "w142", "w143", "w144", "w146", "w149", "w150", "w151"}

\* C1: what reaches the pipe is one global header followed by packet
\* records only: nothing precedes the header and no second header follows
C1_HeaderOnceFirst ==
    \/ pipe = <<>>
    \/ /\ pipe[1].kind = "hdr"
       /\ \A i \in 2..Len(pipe) : pipe[i].kind = "pkt"

\* C2: the packet records in the pipe are an order-preserving subsequence
\* of the submitted frames: each record is a submitted frame, and the
\* records follow the order of submission without repetition (so the last
\* submitted frame, when written, is the final record)
C2_OrderedSubsequence ==
    /\ \A i \in 1..Len(PipePackets) :
          /\ PipePackets[i].id \in 1..Len(submitted)
          /\ PipePackets[i].val = submitted[PipePackets[i].id]
    /\ \A i, j \in 1..Len(PipePackets) :
          i < j => PipePackets[i].id < PipePackets[j].id
    /\ Len(PipePackets) <= Len(submitted)

\* C3: add_data can be taken in every state of the worker and of stop(),
\* completes in a single step that moves no thread, and leaves exactly the
\* new frame in the slot, whatever frame was pending before
C3_SubmitLastWriteWins ==
    /\ [](Alive /\ Len(submitted) < MaxSubmit
            => ENABLED (\E data \in Frames : add_data(data)))
    /\ [][submitted' # submitted
            => /\ Len(submitted') = Len(submitted) + 1
               /\ fifo_packet' = submitted'[Len(submitted')]
               /\ fifo_packet' \in Frames
               /\ wpc' = wpc /\ mpc' = mpc]_vars

\* C3 witness: a second frame has replaced an unflushed first one while the
\* worker was blocked in open()
C3_Witness ==
    /\ wpc = "l57" /\ ~consumer
    /\ Len(submitted) = 2 /\ submitted[1] # submitted[2]
    /\ fifo_packet = submitted[2]
    /\ pipe = <<>> /\ buf = <<>>

\* C4: for a channel of the descriptor, command_startup returns the five
\* commands ping, stop, configure-PHY, configure-frequency of that channel,
\* start, in this order
C4_StartupOrder ==
    (cmd_op = "command_startup"
       /\ \E i \in 1..Len(Descriptor(cmd_proto).channel_range) :
             list_channel_range(Descriptor(cmd_proto))[i] = cmd_channel)
    => /\ cmd_out.err = "none"
       /\ Len(cmd_out.cmds) = 5
       /\ [i \in 1..5 |-> cmd_out.cmds[i].opcode]
            = <<"CMD_PING", "CMD_STOP", "CMD_CFG_PHY", "CMD_CFG_FREQUENCY",
                "CMD_START">>
       /\ cmd_out.cmds[4]
            = command_cfg_frequency(Descriptor(cmd_proto), cmd_channel).cmd

\* C4 witness: the startup sequence of Zigbee channel 11
C4_Witness ==
    /\ cmd_op = "command_startup"
    /\ cmd_proto = "PROTOCOL_ZIGBEE" /\ cmd_channel = 11
    /\ Len(cmd_out.cmds) = 5

\* C5: once stop() has removed the FIFO file the worker thread has
\* terminated, and nothing is opened, buffered or written afterwards
C5_ReleaseAfterJoin ==
    /\ [](released => Finished)
    /\ [][released => /\ wpc' = wpc /\ fifo_worker' = fifo_worker
                      /\ buf' = buf /\ pipe' = pipe]_vars

\* C5 witness: the file was removed after a session that wrote to the pipe
C5_Witness ==
    /\ released /\ ~fileExists /\ mpc = "returned"
    /\ Len(pipe) >= 2

\* stop() is in progress and was called before open() had completed
StopBeforeOpen ==
    /\ mpc \in {"join", "w161"}
    /\ wpc \in {"idle", "run", "open", "l57", "wopen", "w132"}

\* the OS pipe object of this session is gone
ResourceGone ==
    IF variant = "linux" THEN ~fileExists ELSE fifo_worker # "handle"

\* C6: a stop() called before open() has completed comes back to its
\* caller: it returns (with the OS pipe object gone, on the FIFO) or, on a
\* thread never started, raises; it does not wait for ever
C6_EarlyStopReturns ==
    [](StopBeforeOpen
         => <>(\/ mpc = "raised"
               \/ mpc = "SystemExit"
               \/ mpc = "returned" /\ (variant = "linux" => ResourceGone)))

\* C7: after stop() has returned the OS pipe resource is released: the FIFO
\* file is gone (linux), the named-pipe handle is closed (windows)
C7_StopReleases ==
    mpc = "returned"
    => /\ variant = "linux" => ~fileExists
       /\ variant = "windows" => fifo_worker # "handle"

\* the worker takes a step in which a write or flush raises BrokenPipeError
BrokenPipeStep ==
    /\ variant = "linux"
    /\ wpc \in {"l71", "l72", "l75", "l76"}
    /\ fifo_worker = "file" /\ wpc' # wpc
    /\ ~(wpc' \in {"l72", "l75", "l76", "l77"})

\* C8: on the FIFO a BrokenPipeError never ends the worker: the failing
\* step leaves it in the loop, after such failures the loop is left only at
\* its test with the cancel flag set, and once a reader is attached again
\* the flush of a packet goes through to the pipe
C8_DisconnectTolerated ==
    /\ [][BrokenPipeStep => wpc' = "l66"]_vars
    /\ [][variant = "linux" /\ broken /\ wpc # "done" /\ wpc' = "done"
            => fifo_recv_cancel /\ wpc = "l66"]_vars
    /\ [][variant = "linux" /\ broken /\ consumer
            /\ wpc = "l76" /\ wpc' # wpc
            => /\ wpc' = "l77"
               /\ pipe' = pipe \o buf
               /\ pipe'[Len(pipe')].kind = "pkt"]_vars

\* C8 witness: after a failed write and the return of the reader, a frame
\* submitted later is the last record in the pipe and the loop still runs
C8_Witness ==
    /\ variant = "linux" /\ broken /\ consumer /\ detaches >= 1
    /\ InLoop /\ ~fifo_recv_cancel /\ stops = 0
    /\ Len(submitted) >= 2 /\ pipe # <<>>
    /\ pipe[Len(pipe)].kind = "pkt"
    /\ pipe[Len(pipe)].id = Len(submitted)

\* C9 as stated: the failed frame is removed from the slot
C9_FailedFrameDiscarded ==
    [][BrokenPipeStep => fifo_packet' = None]_vars

\* C9 amended: a BrokenPipeError is swallowed, the frame stays in the
\* pending slot, and the loop goes back to its head to attempt it again
C9_FailedFrameKept ==
    [][BrokenPipeStep
         => /\ fifo_packet' = fifo_packet /\ fifo_packet # None
            /\ last_packet' = last_packet
            /\ fifo_need_header' = fifo_need_header
            /\ wpc' = "l66"]_vars

\* C9 witness: after a failed write the frame is pending and unwritten
C9_Witness ==
    /\ variant = "linux" /\ broken /\ wpc = "l66"
    /\ fifo_packet # None /\ fifo_packet # last_packet
    /\ PipePackets = <<>>

\* C10: a failing os.remove in stop() does not terminate the process
C10_CleanupFailureReturns == mpc # "SystemExit"

\* a WriteFile of the worker fails on the named pipe
WriteFaultStep ==
    /\ variant = "windows"
    /\ wpc \in {"w146", "w149"} /\ wpc' # wpc
    /\ ~WriteFileOk

\* ConnectNamedPipe raises instead of returning with a client connected
ConnectFaultStep ==
    /\ variant = "windows"
    /\ wpc = "w132" /\ wpc' # wpc
    /\ fifo_worker = "handle" /\ ~consumer

\* the terminated worker writes nothing more, and a stop() waiting in
\* join() goes through and returns
AfterFaultQuiet ==
    /\ [][variant = "windows" /\ wpc = "done"
            => wpc' = "done" /\ pipe' = pipe]_vars
    /\ [](variant = "windows" /\ wpc = "done" /\ mpc = "join"
            => ENABLED stop_join)
    /\ [][variant = "windows" /\ wpc = "done" /\ mpc = "join"
            /\ mpc' # mpc => mpc' = "returned"]_vars

\* C11 as stated: on the named pipe a fault while connecting or writing
\* ends the drain loop, nothing is written afterwards and stop() returns
C11_FaultEndsWorker ==
    /\ [][WriteFaultStep \/ ConnectFaultStep => wpc' = "done"]_vars
    /\ AfterFaultQuiet

\* C11 amended: a fault while writing ends the drain loop, whatever the
\* cancel flag, nothing is written afterwards and stop() returns; a fault
\* while connecting is printed by open() and the worker enters its loop
C11_WriteFaultEndsWorker ==
    /\ [][WriteFaultStep => wpc' = "done" /\ pipe' = pipe]_vars
    /\ [][ConnectFaultStep => wpc' = "w142"]_vars
    /\ AfterFaultQuiet

\* C11 witness: the write of a pending frame has failed after the header
\* went through, and the worker has ended with no stop requested
C11_Witness ==
    /\ variant = "windows" /\ wpc = "done"
    /\ stops = 0 /\ ~fifo_recv_cancel
    /\ fifo_packet # None /\ Len(pipe) = 1 /\ ~consumer

\* the channel argument of the last call is a channel of its descriptor
ChannelKnown ==
    \E i \in 1..Len(Protocol_of(cmd_proto).channel_range) :
        Protocol_of(cmd_proto).channel_range[i][1] = cmd_channel

\* the frequency the descriptor of the last call gives its channel argument
ChannelFrequency ==
    LET cr == Protocol_of(cmd_proto).channel_range
    IN  cr[CHOOSE i \in 1..Len(cr) : cr[i][1] = cmd_channel][2]

\* C12: command_cfg_frequency and command_startup called with a channel
\* that is not in the descriptor's channel set fail with an error and
\* yield no command, not even the leading ping and stop
C12_UnknownChannelFails ==
    (cmd_op \in {"command_cfg_frequency", "command_startup"}
       /\ ~ChannelKnown)
    => cmd_out.err # "none" /\ cmd_out.cmds = <<>>

\* C12 witness: the startup sequence of BLE asked for the Zigbee channel 11
C12_Witness ==
    /\ cmd_op = "command_startup"
    /\ cmd_proto = "PROTOCOL_BLE" /\ cmd_channel = 11
    /\ cmd_out.err = "ValueError"

\* C13: the payload of command_cfg_frequency is 4 bytes, two little-endian
\* 16-bit fields holding the whole MHz of the channel's frequency and its
\* fraction in units of 1/65536 MHz (2405.0 -> 2405, 0; 433.5 -> 433, 32768)
C13_FrequencyFixedPoint ==
    (cmd_op = "command_cfg_frequency" /\ ChannelKnown)
    => /\ cmd_out.err = "none"
       /\ LET payload == cmd_out.cmds[1].payload
          IN  /\ Len(payload) = 4
              /\ payload[1] + 256 * payload[2]
                   = ChannelFrequency \div CONST_FRECUENCY
              /\ payload[3] + 256 * payload[4]
                   = ChannelFrequency % CONST_FRECUENCY

\* the descriptor name / alias match of the registry described for resolve
NameMatches(i, name) ==
    \/ PROTOCOLSLIST[i].value.name = name
    \/ \E j \in 1..Len(PROTOCOLSLIST[i].value.common_names) :
          PROTOCOLSLIST[i].value.common_names[j] = name

\* C14: get_protocol_by_name returns the first descriptor of the registry
\* whose name or one of whose aliases equals the argument, case-sensitive,
\* and nothing for a string that is no name and no alias
C14_ResolveByNameOrAlias ==
    cmd_op = "get_protocol_by_name"
    => LET hits == {i \in 1..Len(PROTOCOLSLIST) : NameMatches(i, cmd_name)}
       IN  IF hits = {}
           THEN cmd_ret[1] = "None"
           ELSE /\ cmd_ret[1] # "None"
                /\ cmd_ret[2]
                     = PROTOCOLSLIST[CHOOSE i \in hits :
                                       \A j \in hits : i <= j].name

\* C15: command_cfg_phy carries exactly the one PHY byte of its descriptor,
\* and ping, stop and start carry their own opcode and no payload
C15_PhyAndFixedCommands ==
    /\ cmd_op = "command_cfg_phy"
         => /\ Len(cmd_out.cmds) = 1
            /\ cmd_out.cmds[1].opcode = "CMD_CFG_PHY"
            /\ Len(cmd_out.cmds[1].payload) = 1
            /\ cmd_out.cmds[1].payload = Protocol_of(cmd_proto).phy_index
    /\ cmd_op \in {"command_ping", "command_stop", "command_start"}
         => /\ Len(cmd_out.cmds) = 1
            /\ cmd_out.cmds[1].payload = <<>>
            /\ cmd_out.cmds[1].opcode
                 = (CASE cmd_op = "command_ping" -> "CMD_PING"
                      [] cmd_op = "command_stop" -> "CMD_STOP"
                      [] cmd_op = "command_start" -> "CMD_START")

\* C15 witness: the PHY command of BLE with the payload 0x13
C15_Witness ==
    /\ cmd_op = "command_cfg_phy" /\ cmd_proto = "PROTOCOL_BLE"
    /\ cmd_out.cmds[1].payload = <<19>>

\* the worker is in its loop on an opened pipe
Streaming == InLoop /\ fifo_worker # "None"

\* a stop() called while Streaming is in progress: the flag it set is up
StopWhileStreaming ==
    /\ mpc \in {"join", "w161"}
    /\ Streaming /\ fifo_recv_cancel

\* C16: a stop() called while the worker is in its drain loop on an opened
\* pipe returns: the flag it sets stays set, the loop test that finds it
\* set ends the worker, and under fair scheduling of the worker and of the
\* thread in stop() the call comes back, whatever the slot holds and
\* whether or not the writes fail
C16_StopWhileStreamingReturns ==
    /\ [][Callable /\ mpc' \in {"join", "w161"} /\ Streaming
            => StopWhileStreaming']_vars
    /\ [][StopWhileStreaming => fifo_recv_cancel']_vars
    /\ [][fifo_recv_cancel /\ wpc \in {"l66", "w142"} /\ wpc' # wpc
            => wpc' = "done"]_vars
    /\ [](StopWhileStreaming => <>(mpc = "returned"))

\* C16 witness: stop() has returned from a FIFO worker that had written a
\* frame and was holding a pending frame identical to it
C16_Witness ==
    /\ variant = "linux" /\ mpc = "returned" /\ wpc = "done"
    /\ fifo_packet # None /\ fifo_packet = last_packet
    /\ PipePackets # <<>> /\ released

\* the drain loop empties a slot that holds a frame (lines 78 / 151)
ClearStep ==
    /\ wpc \in {"l78", "w151"} /\ wpc' # wpc
    /\ fifo_packet # None /\ fifo_packet' = None

\* the frame in the slot, the latest one submitted, has been written
SlotFrameWritten ==
    \E i \in DOMAIN pipe :
        pipe[i].kind = "pkt" /\ pipe[i].id = Len(submitted)

\* C17: the drain loop never clears a frame that it did not write: the
\* frame it removes from the slot is one that is in the pipe, also when
\* add_data runs between the write and the clearing of the slot
C17_ClearOnlyWritten ==
    [][ClearStep => SlotFrameWritten]_vars

\* C18: the cancel flag is monotone: once stop() has set it, no step of the
\* worker, the start of run() included, sets it back to false
C18_CancelMonotone ==
    [][fifo_recv_cancel => fifo_recv_cancel']_vars

\* frame k, the k-th submitted, is in the slot of a streaming worker that
\* is at the head of an iteration and has yet to look at it, with a reader
\* attached, no write has failed and no stop has been requested
PendingFair(k) ==
    /\ Len(submitted) = k /\ fifo_packet # None
    /\ Streaming /\ wpc \in {"l66", "l68", "w142", "w143"}
    /\ consumer /\ ~broken
    /\ Callable /\ ~fifo_recv_cancel

\* frame k has been written to the pipe and the slot is empty
Drained(k) ==
    /\ \E i \in DOMAIN pipe : pipe[i].kind = "pkt" /\ pipe[i].id = k
    /\ fifo_packet = None

\* C19: with the drain loop scheduled fairly, a reader attached, no write
\* failure and no stop request, a frame in the slot that no later add_data
\* overwrites is written to the pipe and the slot is emptied, whatever
\* its value
C19_PendingFrameDrained ==
    \A k \in 1..MaxSubmit :
        [](PendingFair(k)
             => <>(\/ Drained(k)
                   \/ Len(submitted) > k
                   \/ ~consumer \/ broken \/ wpc = "done"
                   \/ ~Callable \/ fifo_recv_cancel))

\* the global headers in the pipe
PipeHeaders == SelectSeq(pipe, LAMBDA x : x.kind = "hdr")

\* C20: both variants write the same stream for the same link type and
\* frames: on each of them every global header in the pipe carries the
\* link type configured through set_linktype
C20_HeaderCarriesLinktype ==
    \A i \in DOMAIN PipeHeaders :
        PipeHeaders[i] = get_global_header(linktype)

----------------------------------------------------------------------------
(* Fairness: the scheduler runs the worker thread and the thread inside    *)
(* stop() whenever they can take a step.  Nothing is assumed of the reader *)
(* of the pipe, of the capture thread, of faults, or of further calls.     *)

LiveSpec ==
    /\ Spec
    /\ WF_vars(Worker /\ UNCHANGED cmdVars)
    /\ WF_vars((stop_clear \/ stop_join \/ stop_remove) /\ UNCHANGED cmdVars)

(* The same with a cooperative reader: one always attaches in the end, and *)
(* the worker gets to run whenever it is enabled again and again.          *)

FairReaderSpec ==
    /\ LiveSpec
    /\ SF_vars(Worker /\ UNCHANGED cmdVars)
    /\ WF_vars(Attach /\ UNCHANGED cmdVars)

====
